---- MODULE Spec2Model ----
(***************************************************************************)
(* Model of the SRE-instrumented Flask application                         *)
(* (exercises/exercise1/app): configuration validation (config.py), the    *)
(* structured logger log_structured and the request instrumentation        *)
(* decorator instrument_request with the framework's error handlers        *)
(* (main.py).                                                              *)
(*                                                                         *)
(* Python values are records [t |-> type name, s |-> printed form], so     *)
(* that str(), json.dumps and label conversion are real conversions.       *)
(* "Emitting" a log event means handing the record to logger.log at its    *)
(* level; the logging library's level threshold is not modelled.           *)
(***************************************************************************)
EXTENDS Integers, Sequences, FiniteSets, TLC

VARIABLES
    config,       \* class Config: the settings read from the environment
    startup,      \* position of module start-up in main.py
    logCall,      \* arguments of a direct log_structured call
    logOut,       \* what that call did: the record handed to logger.log, or the error raised
    counter,      \* http_requests_total: label tuple -> value
    hist,         \* http_request_duration_seconds: label tuple -> number of observations
    logged,       \* records handed to logger.log so far, counted by <<event, <<method, path>>>>
    pc,           \* per request thread: position in decorated_function / the framework
    req,          \* per request thread: flask.request (method, path) and the matched endpoint
    response,     \* per request thread: what the inner handler returned
    status_code,  \* per request thread: the local variable status_code
    fault,        \* per request thread: the exception in flight ("none" when there is none)
    emitted,      \* per request thread: records this invocation handed to logger.log, in order
    steps,        \* per request thread: what this invocation did, in order
    result,       \* per request thread: what decorated_function gave its caller
    incKey,       \* per request thread: label tuple of the increment in progress
    incTmp,       \* per request thread: value read by the increment in progress
    incRet,       \* per request thread: where to continue after the increment
    started,      \* number of requests accepted so far
    handled,      \* number of requests answered, scrapes of /metrics left out
    ended         \* number of finished wrapped invocations per outcome <<method, endpoint_name, status label>>

vars == <<config, startup, logCall, logOut, counter, hist, logged, pc, req, response,
          status_code, fault, emitted, steps, result, incKey, incTmp, incRet, started, handled, ended>>

configVars == <<config, startup>>
logVars == <<logCall, logOut>>
metricVars == <<counter, hist, logged, ended>>
threadVars == <<pc, req, response, status_code, fault, emitted, steps, result,
                incKey, incTmp, incRet, started, handled>>

-----------------------------------------------------------------------------
(* Bounds *)

NumThreads == 1      \* request threads that may be in flight together
MaxRequests == 2     \* requests accepted in one run
NumConcurrent == 3   \* K: requests issued together in the concurrent-increment run

-----------------------------------------------------------------------------
(* Python values *)

V(t, s) == [t |-> t, s |-> s]

None == V("none", "None")

\* str(v)
Str(v) == V("str", v.s)

\* json.dumps accepts str, int, float, bool and None (and containers of them);
\* anything else raises TypeError.
JsonSerializable(v) == v.t \in {"str", "int", "float", "bool", "none"}

\* str.upper() / str.lower() on the strings the configuration and the log levels use
Upper(s) ==
    CASE s = "info" -> "INFO"
      [] s = "warning" -> "WARNING"
      [] s = "error" -> "ERROR"
      [] s = "debug" -> "DEBUG"
      [] s = "critical" -> "CRITICAL"
      [] s = "trace" -> "TRACE"
      [] s = "Info" -> "INFO"
      [] OTHER -> s

Lower(s) ==
    CASE s = "Production" -> "production"
      [] s = "STAGING" -> "staging"
      [] s = "QA" -> "qa"
      [] OTHER -> s

-----------------------------------------------------------------------------
(* config.py: class Config *)

\* FAILURE_RATE is a float; it is kept in hundredths (0.1 is 10, 1.0 is 100).
valid_log_levels == {"DEBUG", "INFO", "WARNING", "ERROR", "CRITICAL"}
valid_environments == {"development", "staging", "production"}

\* Config.validate: the message of the ValueError it raises, "none" when it returns.
validate(cls) ==
    IF ~(1 <= cls.PORT /\ cls.PORT <= 65535) THEN "PORT must be between 1 and 65535"
    ELSE IF ~(0 <= cls.FAILURE_RATE /\ cls.FAILURE_RATE <= 100)
        THEN "FAILURE_RATE must be between 0.0 and 1.0"
    ELSE IF Upper(cls.LOG_LEVEL) \notin valid_log_levels THEN "LOG_LEVEL must be one of"
    ELSE IF Lower(cls.ENVIRONMENT) \notin valid_environments THEN "ENVIRONMENT must be one of"
    ELSE "none"

\* The defaults of the class attributes.
DefaultConfig ==
    [APP_NAME |-> "devops-demo-app", ENVIRONMENT |-> "development", PORT |-> 8080,
     FAILURE_RATE |-> 10, LOG_LEVEL |-> "INFO", LOG_FORMAT |-> "json"]

\* Settings the environment may supply.
EnvPorts == {0, 1, 8080, 65535, 65536}
EnvFailureRates == {-1, 0, 10, 100, 101}
EnvLogLevels == {"INFO", "info", "CRITICAL", "TRACE"}
EnvEnvironments == {"development", "Production", "QA"}
EnvLogFormats == {"json", "text", "xml"}

EnvConfigs ==
    [APP_NAME : {"devops-demo-app"}, ENVIRONMENT : EnvEnvironments, PORT : EnvPorts,
     FAILURE_RATE : EnvFailureRates, LOG_LEVEL : EnvLogLevels, LOG_FORMAT : EnvLogFormats]

-----------------------------------------------------------------------------
(* main.py: log_structured *)

EmptyMap == [k \in {} |-> None]

\* datetime.utcnow().isoformat() + "Z"
Timestamp == V("str", "utcnow-Z")

\* Names getattr(logging, name) resolves to a level.
LoggingLevels == {"DEBUG", "INFO", "WARNING", "ERROR", "CRITICAL"}

FixedKeys == {"timestamp", "level", "event", "app_name", "environment"}

\* The dict literal of lines 93-100: the five fixed items first, then **kwargs,
\* so a later (caller) item replaces an earlier one with the same key.
log_entry(cfg, level, event, kwargs) ==
    LET fixed == [timestamp |-> Timestamp,
                  level |-> V("str", Upper(level)),
                  event |-> V("str", event),
                  app_name |-> V("str", cfg.APP_NAME),
                  environment |-> V("str", cfg.ENVIRONMENT)]
    IN [k \in FixedKeys \cup DOMAIN kwargs |->
            IF k \in DOMAIN kwargs THEN kwargs[k] ELSE fixed[k]]

\* The text line of line 104: "[event] k=v k=v", each v through str().
text_message(event, kwargs) == [k \in DOMAIN kwargs |-> Str(kwargs[k])]

NoRecord == [raised |-> "none", format |-> "none", level |-> "", event |-> "", entry |-> EmptyMap]

\* log_structured(level, event, **kwargs): the record handed to logger.log, or
\* the exception that leaves the call.  A keyword named like a positional
\* parameter is a TypeError at the call; getattr(logging, ...) is evaluated
\* before json.dumps; json.dumps has no default= hook.
log_structured(cfg, level, event, kwargs) ==
    IF {"level", "event"} \cap DOMAIN kwargs /= {}
        THEN [NoRecord EXCEPT !.raised = "TypeError"]
    ELSE IF Upper(level) \notin LoggingLevels
        THEN [NoRecord EXCEPT !.raised = "AttributeError"]
    ELSE IF cfg.LOG_FORMAT = "json"
        THEN LET entry == log_entry(cfg, level, event, kwargs)
             IN IF \E k \in DOMAIN entry : ~JsonSerializable(entry[k])
                    THEN [NoRecord EXCEPT !.raised = "TypeError"]
                    ELSE [raised |-> "none", format |-> "json", level |-> Upper(level),
                          event |-> event, entry |-> entry]
    ELSE [raised |-> "none", format |-> "text", level |-> Upper(level),
          event |-> event, entry |-> text_message(event, kwargs)]

\* Arguments of the direct calls.
CallLevels == {"info", "error", "trace"}
CallEvents == {"application_starting"}
CallKeys == {"timestamp", "level", "app_name", "environment", "path"}
CallValues == {V("str", "x"), V("object", "<object>")}
CallKwargs == UNION {[ks -> CallValues] : ks \in SUBSET CallKeys}

Pending == [NoRecord EXCEPT !.raised = "pending"]
NoCall == [level |-> "", event |-> "", kwargs |-> EmptyMap]

\* One direct call of log_structured.
LogCall(level, event, kwargs) ==
    /\ logOut = Pending
    /\ logCall' = [level |-> level, event |-> event, kwargs |-> kwargs]
    /\ logOut' = log_structured(config, level, event, kwargs)
    /\ UNCHANGED <<configVars, metricVars, threadVars>>

-----------------------------------------------------------------------------
(* main.py lines 25-30 and 458-471: module start-up *)

\* Config.validate() of line 26
Validate ==
    /\ startup = "loading"
    /\ startup' = IF validate(config) = "none" THEN "validated" ELSE "failed"
    /\ UNCHANGED <<config, logVars, metricVars, threadVars>>

\* app = Flask(__name__) of line 29
CreateApp ==
    /\ startup = "validated"
    /\ startup' = "app_created"
    /\ UNCHANGED <<config, logVars, metricVars, threadVars>>

\* app.run(host, port, debug) of lines 467-471
Run ==
    /\ startup = "app_created"
    /\ startup' = "listening"
    /\ UNCHANGED <<config, logVars, metricVars, threadVars>>

-----------------------------------------------------------------------------
(* main.py: routes, request data and the inner handlers *)

Methods == {"GET", "HEAD"}

WrappedEndpoints == {"health_check", "readiness_check", "home", "get_stores", "get_store"}

\* The URL rules registered by @app.route: the view a path is dispatched to,
\* "metrics" for the unwrapped /metrics view, "none" when no rule matches.
url_map(path) ==
    CASE path = "/health" -> "health_check"
      [] path = "/ready" -> "readiness_check"
      [] path = "/metrics" -> "metrics"
      [] path = "/" -> "home"
      [] path = "/stores" -> "get_stores"
      [] path = "/stores/1" -> "get_store"
      [] path = "/stores/3" -> "get_store"
      [] OTHER -> "none"

\* The requests the modelled clients send: <<method, path>>.
Requests ==
    {<<"GET", "/health">>, <<"HEAD", "/stores/3">>, <<"GET", "/metrics">>, <<"GET", "/missing">>}

Body == V("Response", "<Response>")
IntV(s) == V("int", s)

\* What a wrapped view f may hand back: a bare payload, a 1-tuple, or a
\* (payload, second item) pair whose second item is a status or, as Flask also
\* allows, a Headers object.
NoResponse == [tuple |-> FALSE, items |-> << >>]
SecondItems == {IntV("200"), IntV("503"), V("Headers", "<Headers>")}
HandlerReturns ==
    {[tuple |-> FALSE, items |-> <<Body>>], [tuple |-> TRUE, items |-> <<Body>>]}
        \cup {[tuple |-> TRUE, items |-> <<Body, s>>] : s \in SecondItems}
HandlerFaults == {"RuntimeError"}
HandlerOutcomes ==
    {[raises |-> "none", returns |-> r] : r \in HandlerReturns}
        \cup {[raises |-> e, returns |-> NoResponse] : e \in HandlerFaults}

\* Lines 139-142: the status code of a response.
extract_status(resp) ==
    IF resp.tuple
        THEN IF Len(resp.items) > 1 THEN resp.items[2] ELSE IntV("200")
        ELSE IntV("200")

\* prometheus_client turns every label value into str(value).
Label(v) == Str(v).s

StatusLabels == {Label(s) : s \in SecondItems} \cup {"200", "404", "500"}
\* Label tuples the requests can touch.
RequestEndpoints == {url_map(r[2]) : r \in Requests} \cap WrappedEndpoints
CounterKeys == Methods \X (RequestEndpoints \cup {"unknown"}) \X StatusLabels
HistKeys == Methods \X RequestEndpoints

RECURSIVE SumOver(_, _)
SumOver(f, keys) ==
    IF keys = {} THEN 0
    ELSE LET k == CHOOSE x \in keys : TRUE IN f[k] + SumOver(f, keys \ {k})

\* round(duration * 1000, 2)
DurationMs == V("float", "<duration_ms>")

-----------------------------------------------------------------------------
(* Per-thread state *)

IdleReq == [method |-> "", path |-> "", endpoint |-> ""]
NoResult == [kind |-> "none", value |-> NoResponse, fault |-> "none"]
NoKey == <<"", "", "">>

LogKeys ==
    {"request_received", "request_completed", "request_failed", "not_found",
     "internal_server_error"} \X Requests

\* logger.log(level, line): the record joins the output stream.
Emit(w, rec) ==
    /\ logged' = [logged EXCEPT ![<<rec.event, <<req[w].method, req[w].path>>>>] = @ + 1]
    /\ emitted' = [emitted EXCEPT ![w] = Append(@, rec)]

Step(w, what, detail) == steps' = [steps EXCEPT ![w] = Append(@, <<what, detail>>)]

\* Counter.inc() takes the lock of the label tuple's value, reads it, adds one
\* and writes it back.  The lock is free when no other thread is between its
\* read and its write of the same label tuple.
LockFree(w, key) == \A o \in DOMAIN pc : o /= w => ~(pc[o] = "inc_write" /\ incKey[o] = key)

\* First half of http_requests_total.labels(...).inc(): acquire and read.
BeginInc(w, key, ret) ==
    /\ LockFree(w, key)
    /\ incKey' = [incKey EXCEPT ![w] = key]
    /\ incTmp' = [incTmp EXCEPT ![w] = counter[key]]
    /\ incRet' = [incRet EXCEPT ![w] = ret]
    /\ pc' = [pc EXCEPT ![w] = "inc_write"]

\* Second half: write the incremented value and release.
IncWrite(w) ==
    /\ pc[w] = "inc_write"
    /\ counter' = [counter EXCEPT ![incKey[w]] = incTmp[w] + 1]
    /\ pc' = [pc EXCEPT ![w] = incRet[w]]
    /\ UNCHANGED <<configVars, logVars, hist, logged, ended, handled, req, response,
                   status_code, fault, emitted, steps, result, incKey, incTmp, incRet, started>>

-----------------------------------------------------------------------------
(* The framework: accepting a request and dispatching it *)

\* A request arrives and Flask matches its path against the URL rules.
Accept(w, method, path, limit) ==
    /\ pc[w] = "idle"
    /\ started < limit
    /\ started' = started + 1
    /\ req' = [req EXCEPT ![w] = [method |-> method, path |-> path, endpoint |-> url_map(path)]]
    /\ pc' = [pc EXCEPT ![w] =
                IF url_map(path) \in WrappedEndpoints THEN "enter"
                ELSE IF url_map(path) = "metrics" THEN "metrics"
                ELSE "not_found"]
    /\ UNCHANGED <<configVars, logVars, metricVars, handled, response, status_code, fault,
                   emitted, steps, result, incKey, incTmp, incRet>>

-----------------------------------------------------------------------------
(* main.py lines 121-187: instrument_request.decorated_function *)

S(x) == V("str", x)

\* Lines 122-132: take the start time and log the incoming request.  The call
\* stands outside the try block, so an error of the logger leaves the wrapper.
Enter(w) ==
    /\ pc[w] = "enter"
    /\ LET out == log_structured(config, "info", "request_received",
                      [method |-> S(req[w].method), path |-> S(req[w].path),
                       remote_addr |-> S("127.0.0.1"), user_agent |-> S("unknown")])
       IN IF out.raised = "none"
            THEN /\ Emit(w, out)
                 /\ Step(w, "log", "request_received")
                 /\ pc' = [pc EXCEPT ![w] = "call"]
                 /\ UNCHANGED <<fault, result>>
            ELSE /\ fault' = [fault EXCEPT ![w] = out.raised]
                 /\ result' = [result EXCEPT ![w] = [NoResult EXCEPT !.kind = "raise", !.fault = out.raised]]
                 /\ pc' = [pc EXCEPT ![w] = "handle_exception"]
                 /\ UNCHANGED <<logged, emitted, steps>>
    /\ UNCHANGED <<configVars, logVars, counter, hist, ended, handled, req, response,
                   status_code, incKey, incTmp, incRet, started>>

\* Invoke with a retry: a view that raised is run a second time.
Invoke_retry(w, out) ==
    /\ pc[w] = "call"
    /\ Step(w, "call", req[w].endpoint)
    /\ IF out.raises = "none"
         THEN /\ response' = [response EXCEPT ![w] = out.returns]
              /\ status_code' = [status_code EXCEPT ![w] = extract_status(out.returns)]
              /\ pc' = [pc EXCEPT ![w] = "count"]
              /\ UNCHANGED fault
         ELSE /\ fault' = [fault EXCEPT ![w] = out.raises]
              /\ pc' = [pc EXCEPT ![w] = IF fault[w] = "none" THEN "call" ELSE "except"]
              /\ UNCHANGED <<response, status_code>>
    /\ UNCHANGED <<configVars, logVars, metricVars, handled, req, emitted, result,
                   incKey, incTmp, incRet, started>>

\* Lines 134-142: run the view once; on a return, take the status code.
Invoke(w, out) ==
    /\ pc[w] = "call"
    /\ Step(w, "call", req[w].endpoint)
    /\ IF out.raises = "none"
         THEN /\ response' = [response EXCEPT ![w] = out.returns]
              /\ status_code' = [status_code EXCEPT ![w] = extract_status(out.returns)]
              /\ pc' = [pc EXCEPT ![w] = "count"]
              /\ UNCHANGED fault
         ELSE /\ fault' = [fault EXCEPT ![w] = out.raises]
              /\ pc' = [pc EXCEPT ![w] = "except"]
              /\ UNCHANGED <<response, status_code>>
    /\ UNCHANGED <<configVars, logVars, metricVars, handled, req, emitted, result,
                   incKey, incTmp, incRet, started>>

\* Count with a read and a write of the value outside its lock.
Count_unlocked(w) ==
    /\ pc[w] = "count"
    /\ incKey' = [incKey EXCEPT ![w] = <<req[w].method, req[w].endpoint, Label(status_code[w])>>]
    /\ incTmp' = [incTmp EXCEPT ![w] =
                    counter[<<req[w].method, req[w].endpoint, Label(status_code[w])>>]]
    /\ incRet' = [incRet EXCEPT ![w] = "observe"]
    /\ pc' = [pc EXCEPT ![w] = "inc_write"]
    /\ Step(w, "inc", Label(status_code[w]))
    /\ UNCHANGED <<configVars, logVars, metricVars, handled, req, response, status_code,
                   fault, emitted, result, started>>

\* Lines 145-150: http_requests_total.labels(method, endpoint_name, status_code).inc()
Count(w) ==
    /\ pc[w] = "count"
    /\ BeginInc(w, <<req[w].method, req[w].endpoint, Label(status_code[w])>>, "observe")
    /\ Step(w, "inc", Label(status_code[w]))
    /\ UNCHANGED <<configVars, logVars, metricVars, handled, req, response, status_code,
                   fault, emitted, result, started>>

\* Lines 151-154: http_request_duration_seconds.labels(method, endpoint_name).observe(duration)
Observe(w) ==
    /\ pc[w] = "observe"
    /\ hist' = [hist EXCEPT ![<<req[w].method, req[w].endpoint>>] = @ + 1]
    /\ Step(w, "observe", "")
    /\ pc' = [pc EXCEPT ![w] = "log_completed"]
    /\ UNCHANGED <<configVars, logVars, counter, logged, ended, handled, req, response,
                   status_code, fault, emitted, result, incKey, incTmp, incRet, started>>

\* Lines 156-164: log the completed request.  The call stands inside the try
\* block: an error of the logger is caught by the except clause of line 168.
LogCompleted(w) ==
    /\ pc[w] = "log_completed"
    /\ LET out == log_structured(config, "info", "request_completed",
                      [method |-> S(req[w].method), path |-> S(req[w].path),
                       status_code |-> status_code[w], duration_ms |-> DurationMs])
       IN IF out.raised = "none"
            THEN /\ Emit(w, out)
                 /\ Step(w, "log", "request_completed")
                 /\ pc' = [pc EXCEPT ![w] = "return"]
                 /\ UNCHANGED fault
            ELSE /\ fault' = [fault EXCEPT ![w] = out.raised]
                 /\ pc' = [pc EXCEPT ![w] = "except"]
                 /\ UNCHANGED <<logged, emitted, steps>>
    /\ UNCHANGED <<configVars, logVars, counter, hist, ended, handled, req, response,
                   status_code, result, incKey, incTmp, incRet, started>>

\* Line 166: return response
Return(w) ==
    /\ pc[w] = "return"
    /\ result' = [result EXCEPT ![w] = [NoResult EXCEPT !.kind = "return", !.value = response[w]]]
    /\ ended' = [ended EXCEPT ![<<req[w].method, req[w].endpoint, Label(status_code[w])>>] = @ + 1]
    /\ Step(w, "return", "")
    /\ pc' = [pc EXCEPT ![w] = "done"]
    /\ UNCHANGED <<configVars, logVars, counter, hist, logged, handled, req, response,
                   status_code, fault, emitted, incKey, incTmp, incRet, started>>

\* Lines 168-178: except Exception as e: log the failed request.
LogFailed(w) ==
    /\ pc[w] = "except"
    /\ LET out == log_structured(config, "error", "request_failed",
                      [method |-> S(req[w].method), path |-> S(req[w].path),
                       error |-> Str(V("Exception", fault[w])), duration_ms |-> DurationMs])
       IN IF out.raised = "none"
            THEN /\ Emit(w, out)
                 /\ Step(w, "log", "request_failed")
                 /\ pc' = [pc EXCEPT ![w] = "count_failed"]
                 /\ UNCHANGED <<fault, result>>
            ELSE /\ fault' = [fault EXCEPT ![w] = out.raised]
                 /\ result' = [result EXCEPT ![w] = [NoResult EXCEPT !.kind = "raise", !.fault = out.raised]]
                 /\ pc' = [pc EXCEPT ![w] = "handle_exception"]
                 /\ UNCHANGED <<logged, emitted, steps>>
    /\ UNCHANGED <<configVars, logVars, counter, hist, ended, handled, req, response,
                   status_code, incKey, incTmp, incRet, started>>

\* Lines 180-185: http_requests_total.labels(method, endpoint_name, 500).inc()
CountFailed(w) ==
    /\ pc[w] = "count_failed"
    /\ BeginInc(w, <<req[w].method, req[w].endpoint, Label(IntV("500"))>>, "reraise")
    /\ Step(w, "inc", Label(IntV("500")))
    /\ UNCHANGED <<configVars, logVars, metricVars, handled, req, response, status_code,
                   fault, emitted, result, started>>

\* Reraise that swallows the exception and answers with a response of its own.
Reraise_swallow(w) ==
    /\ pc[w] = "reraise"
    /\ result' = [result EXCEPT ![w] =
                    [NoResult EXCEPT !.kind = "return",
                                     !.value = [tuple |-> TRUE, items |-> <<Body, IntV("500")>>]]]
    /\ ended' = [ended EXCEPT ![<<req[w].method, req[w].endpoint, "500">>] = @ + 1]
    /\ Step(w, "return", "")
    /\ pc' = [pc EXCEPT ![w] = "done"]
    /\ UNCHANGED <<configVars, logVars, counter, hist, logged, handled, req, response,
                   status_code, fault, emitted, incKey, incTmp, incRet, started>>

\* Line 187: raise
Reraise(w) ==
    /\ pc[w] = "reraise"
    /\ result' = [result EXCEPT ![w] = [NoResult EXCEPT !.kind = "raise", !.fault = fault[w]]]
    /\ ended' = [ended EXCEPT ![<<req[w].method, req[w].endpoint, "500">>] = @ + 1]
    /\ Step(w, "raise", fault[w])
    /\ pc' = [pc EXCEPT ![w] = "handle_exception"]
    /\ UNCHANGED <<configVars, logVars, counter, hist, logged, handled, req, response,
                   status_code, fault, emitted, incKey, incTmp, incRet, started>>

-----------------------------------------------------------------------------
(* main.py: the unwrapped /metrics view and the error handlers *)

\* Lines 260-268: generate_latest() reads the registry.
metrics(w) ==
    /\ pc[w] = "metrics"
    /\ pc' = [pc EXCEPT ![w] = "done"]
    /\ UNCHANGED <<configVars, logVars, metricVars, handled, req, response, status_code,
                   fault, emitted, steps, result, incKey, incTmp, incRet, started>>

\* Lines 408-428: @app.errorhandler(404), run when no URL rule matches.
not_found(w) ==
    /\ pc[w] = "not_found"
    /\ LET out == log_structured(config, "info", "not_found",
                      [path |-> S(req[w].path), method |-> S(req[w].method)])
       IN Emit(w, out)
    /\ BeginInc(w, <<req[w].method, "unknown", Label(IntV("404"))>>, "done")
    /\ UNCHANGED <<configVars, logVars, counter, hist, ended, handled, req, response,
                   status_code, fault, steps, result, started>>

\* Lines 431-451: @app.errorhandler(500), run by Flask for an exception that
\* leaves a view.
internal_error(w) ==
    /\ pc[w] = "handle_exception"
    /\ LET out == log_structured(config, "error", "internal_server_error",
                      [path |-> S(req[w].path), method |-> S(req[w].method),
                       error |-> Str(V("InternalServerError", "500 Internal Server Error"))])
       IN Emit(w, out)
    /\ BeginInc(w, <<req[w].method, "unknown", Label(IntV("500"))>>, "done")
    /\ UNCHANGED <<configVars, logVars, counter, hist, ended, handled, req, response,
                   status_code, fault, steps, result, started>>

\* The response is sent; the thread takes the next request with fresh locals.
Finish(w) ==
    /\ pc[w] = "done"
    /\ handled' = IF req[w].endpoint = "metrics" THEN handled ELSE handled + 1
    /\ pc' = [pc EXCEPT ![w] = "idle"]
    /\ req' = [req EXCEPT ![w] = IdleReq]
    /\ response' = [response EXCEPT ![w] = NoResponse]
    /\ status_code' = [status_code EXCEPT ![w] = None]
    /\ fault' = [fault EXCEPT ![w] = "none"]
    /\ emitted' = [emitted EXCEPT ![w] = << >>]
    /\ steps' = [steps EXCEPT ![w] = << >>]
    /\ result' = [result EXCEPT ![w] = NoResult]
    /\ incKey' = [incKey EXCEPT ![w] = NoKey]
    /\ incTmp' = [incTmp EXCEPT ![w] = 0]
    /\ incRet' = [incRet EXCEPT ![w] = ""]
    /\ UNCHANGED <<configVars, logVars, metricVars, started>>

-----------------------------------------------------------------------------
(* Specifications *)

InitThreads(n) ==
    /\ counter = [k \in CounterKeys |-> 0]
    /\ hist = [k \in HistKeys |-> 0]
    /\ logged = [k \in LogKeys |-> 0]
    /\ ended = [k \in CounterKeys |-> 0]
    /\ pc = [w \in 1..n |-> "idle"]
    /\ req = [w \in 1..n |-> IdleReq]
    /\ response = [w \in 1..n |-> NoResponse]
    /\ status_code = [w \in 1..n |-> None]
    /\ fault = [w \in 1..n |-> "none"]
    /\ emitted = [w \in 1..n |-> << >>]
    /\ steps = [w \in 1..n |-> << >>]
    /\ result = [w \in 1..n |-> NoResult]
    /\ incKey = [w \in 1..n |-> NoKey]
    /\ incTmp = [w \in 1..n |-> 0]
    /\ incRet = [w \in 1..n |-> ""]
    /\ started = 0
    /\ handled = 0

\* The serving application: start-up has passed, LOG_FORMAT is json or text.
Init ==
    /\ config \in {[DefaultConfig EXCEPT !.LOG_FORMAT = f] : f \in {"json", "text"}}
    /\ startup = "listening"
    /\ logCall = NoCall
    /\ logOut = Pending
    /\ InitThreads(NumThreads)

Threads == DOMAIN pc

Next ==
    \/ \E w \in Threads, r \in Requests : Accept(w, r[1], r[2], MaxRequests)
    \/ \E w \in Threads : Enter(w)
    \/ \E w \in Threads, o \in HandlerOutcomes : Invoke(w, o)
    \/ \E w \in Threads : Count(w)
    \/ \E w \in Threads : IncWrite(w)
    \/ \E w \in Threads : Observe(w)
    \/ \E w \in Threads : LogCompleted(w)
    \/ \E w \in Threads : Return(w)
    \/ \E w \in Threads : LogFailed(w)
    \/ \E w \in Threads : CountFailed(w)
    \/ \E w \in Threads : Reraise(w)
    \/ \E w \in Threads : metrics(w)
    \/ \E w \in Threads : not_found(w)
    \/ \E w \in Threads : internal_error(w)
    \/ \E w \in Threads : Finish(w)

Spec == Init /\ [][Next]_vars

\* K requests to one endpoint, issued together.
ConcOutcomes ==
    {[raises |-> "none", returns |-> [tuple |-> TRUE, items |-> <<Body, IntV("200")>>]],
     [raises |-> "RuntimeError", returns |-> NoResponse]}

InitConc ==
    /\ config = DefaultConfig
    /\ startup = "listening"
    /\ logCall = NoCall
    /\ logOut = Pending
    /\ InitThreads(NumConcurrent)

NextConc ==
    \/ \E w \in Threads : Accept(w, "GET", "/health", NumConcurrent)
    \/ \E w \in Threads : Enter(w)
    \/ \E w \in Threads, o \in ConcOutcomes : Invoke(w, o)
    \/ \E w \in Threads : Count(w)
    \/ \E w \in Threads : IncWrite(w)
    \/ \E w \in Threads : Observe(w)
    \/ \E w \in Threads : LogCompleted(w)
    \/ \E w \in Threads : Return(w)
    \/ \E w \in Threads : LogFailed(w)
    \/ \E w \in Threads : CountFailed(w)
    \/ \E w \in Threads : Reraise(w)
    \/ \E w \in Threads : internal_error(w)

SpecConc == InitConc /\ [][NextConc]_vars

\* Start-up under any environment.
InitConfig ==
    /\ config \in EnvConfigs
    /\ startup = "loading"
    /\ logCall = NoCall
    /\ logOut = Pending
    /\ InitThreads(NumThreads)

NextConfig == Validate \/ CreateApp \/ Run

SpecConfig == InitConfig /\ [][NextConfig]_vars

\* Direct calls of log_structured.
InitLog ==
    /\ config \in {[DefaultConfig EXCEPT !.LOG_FORMAT = f] : f \in {"json", "text"}}
    /\ startup = "listening"
    /\ logCall = NoCall
    /\ logOut = Pending
    /\ InitThreads(NumThreads)

NextLog == \E level \in CallLevels, event \in CallEvents, kwargs \in CallKwargs :
               LogCall(level, event, kwargs)

SpecLog == InitLog /\ [][NextLog]_vars

-----------------------------------------------------------------------------
(* Properties *)

\* No request is in flight (serving run) / every issued request was answered
\* (concurrent run).
Quiescent == started > 0 /\ \A w \in DOMAIN pc : pc[w] = "idle"
AllAnswered == started = NumConcurrent /\ \A w \in DOMAIN pc : pc[w] = "done"

Occurrences(seq, x) == Cardinality({i \in DOMAIN seq : seq[i] = x})
Position(seq, x) == CHOOSE i \in DOMAIN seq : seq[i] = x

Received == <<"log", "request_received">>
Completed == <<"log", "request_completed">>
Failed == <<"log", "request_failed">>
Calls(w) == Cardinality({i \in DOMAIN steps[w] : steps[w][i][1] = "call"})
Incs(w) == Cardinality({i \in DOMAIN steps[w] : steps[w][i][1] = "inc"})

\* The wrapper has given its caller a result or an exception.
WrapperEnded(w) == result[w].kind /= "none"
\* The inner handler raised / returned.
HandlerRaised(w) == Calls(w) > 0 /\ response[w] = NoResponse /\ fault[w] \in HandlerFaults
HandlerReturned(w) == response[w] /= NoResponse

C2_NoLostIncrement ==
    \A k \in CounterKeys :
        (AllAnswered /\ ended[k] = NumConcurrent) => counter[k] = NumConcurrent

C2_Witness ==
    /\ AllAnswered
    /\ ended[<<"GET", "health_check", "200">>] = NumConcurrent
    /\ counter[<<"GET", "health_check", "200">>] = NumConcurrent
    /\ \A w \in DOMAIN pc : Incs(w) = 1

\* C3: when the inner handler raised, the wrapper logs request_failed with
\* method, path, the stringified error and duration_ms, then increments
\* http_requests_total at (method, endpoint_name, 500), then re-raises the same
\* exception; it never returns a response of its own.
C3_FaultPath ==
    \A w \in DOMAIN pc :
        HandlerRaised(w) =>
            /\ result[w].kind /= "return"
            /\ pc[w] /= "done" => pc[w] \in {"except", "count_failed", "inc_write", "reraise", "handle_exception"}
            /\ (WrapperEnded(w) /\ pc[w] = "handle_exception") =>
                /\ result[w].kind = "raise"
                /\ result[w].fault = fault[w]
                /\ steps[w] = <<Received, <<"call", req[w].endpoint>>, Failed,
                                <<"inc", "500">>, <<"raise", fault[w]>>>>
                /\ LET rec == emitted[w][Len(emitted[w])]
                   IN /\ rec.event = "request_failed"
                      /\ rec.level = "ERROR"
                      /\ {"method", "path", "error", "duration_ms"} \subseteq DOMAIN rec.entry
                      /\ rec.entry["method"] = S(req[w].method)
                      /\ rec.entry["path"] = S(req[w].path)
                      /\ rec.entry["error"] = S(fault[w])
                /\ incKey[w] = <<req[w].method, req[w].endpoint, "500">>
                /\ counter[incKey[w]] >= incTmp[w] + 1

C3_Witness ==
    \E w \in DOMAIN pc :
        /\ HandlerRaised(w)
        /\ pc[w] = "handle_exception"
        /\ result[w] = [NoResult EXCEPT !.kind = "raise", !.fault = "RuntimeError"]
        /\ counter[<<req[w].method, req[w].endpoint, "500">>] = 1

\* C4: every invocation goes entered -> (completed | failed): request_received
\* is logged before the inner handler runs, the inner handler runs once, and an
\* invocation that has ended logged exactly one of request_completed and
\* request_failed, after which it only returns or raises.
C4_StateMachine ==
    \A w \in DOMAIN pc :
        LET st == steps[w]
            terminal == IF Occurrences(st, Completed) > 0 THEN Completed ELSE Failed
        IN /\ Calls(w) <= 1
           /\ Occurrences(st, Received) <= 1
           /\ Calls(w) = 1 => (st[1] = Received /\ st[2][1] = "call")
           /\ Occurrences(st, Completed) + Occurrences(st, Failed) <= 1
           /\ WrapperEnded(w) =>
                /\ Calls(w) = 1
                /\ Occurrences(st, Completed) + Occurrences(st, Failed) = 1
                /\ st[Len(st)][1] \in {"return", "raise"}
                /\ \A i \in DOMAIN st :
                      i > Position(st, terminal) => st[i][1] \in {"inc", "return", "raise"}
                /\ Occurrences(st, Completed) = 1 <=> result[w].kind = "return"

C4_Witness ==
    /\ \E w \in DOMAIN pc :
          /\ WrapperEnded(w)
          /\ Occurrences(steps[w], Failed) = 1
          /\ HandlerReturned(w)
    /\ logged[<<"request_completed", <<"GET", "/health">>>>] = 1

C6_RecordKeys ==
    logOut.format = "json" =>
        /\ DOMAIN logOut.entry = FixedKeys \cup DOMAIN logCall.kwargs
        /\ \A k \in DOMAIN logCall.kwargs \cap {"app_name", "environment"} :
              logOut.entry[k] = logCall.kwargs[k]
        /\ logOut.entry["timestamp"] = Timestamp
        /\ logOut.entry["level"] = S(Upper(logCall.level))
        /\ logOut.entry["event"] = S(logCall.event)

\* C7: log_structured never raises, whatever the field values are: a call with
\* a level of the logging module and caller keys other than its own parameter
\* names hands a record to the logger.
C7_NeverRaises ==
    (/\ logOut /= Pending
     /\ Upper(logCall.level) \in LoggingLevels
     /\ {"level", "event"} \cap DOMAIN logCall.kwargs = {})
        => logOut.raised = "none"

\* C8: start-up validation comes before the application is created, and it
\* fails exactly for the configurations with PORT, FAILURE_RATE, LOG_LEVEL,
\* ENVIRONMENT or LOG_FORMAT out of range (names compared without case).
InRange(cfg) ==
    /\ cfg.PORT \in 1..65535
    /\ cfg.FAILURE_RATE \in 0..100
    /\ Upper(cfg.LOG_LEVEL) \in {"DEBUG", "INFO", "WARNING", "ERROR", "CRITICAL"}
    /\ Lower(cfg.ENVIRONMENT) \in {"development", "staging", "production"}
    /\ cfg.LOG_FORMAT \in {"json", "text"}

C8_ValidationRejects ==
    startup /= "loading" => (startup = "failed" <=> ~InRange(config))

\* C9: every answered request other than a scrape of /metrics added exactly 1
\* to the sum of http_requests_total over all label tuples.
C9_OneIncrementPerRequest ==
    Quiescent => SumOver(counter, CounterKeys) = handled

\* C10: when no request is in flight, for each (method, endpoint_name) the
\* number of observations of http_request_duration_seconds equals the number
\* of request_completed events logged for that pair.
CompletedEvents(m, e) ==
    SumOver([r \in Requests |-> logged[<<"request_completed", r>>]],
            {r \in Requests : r[1] = m /\ url_map(r[2]) = e})

====
